---- MODULE Spec2Model ----
(***************************************************************************)
(* resolve-local-dependencies: bin/cli.js, lib/index.js and utils/log.js   *)
(* as a state machine over the project's filesystem.                       *)
(*                                                                         *)
(* The filesystem is the shared state: the manifest at the project root,   *)
(* the store entries node_modules/<name>, and the source trees the         *)
(* file: specifiers resolve to.  One action is one filesystem or process   *)
(* operation of the code (or the step that throws in its place).           *)
(***************************************************************************)
EXTENDS Integers, Sequences, FiniteSets, TLC

\* ------------------------------------------------------------------ bounds
\* Declarations (name, specifier) in the manifest, over all four groups.
MaxDecls == 2
\* Invocations of the program in succession on the same project root.
MaxRuns == 2

\* -------------------------------------------------------------- input data
Names == {"a", "b"}

GroupOrder == <<"dependencies", "devDependencies", "peerDependencies", "optionalDependencies">>

GroupNames == {GroupOrder[i] : i \in 1..Len(GroupOrder)}

\* A JSON value of a dependency group: a string (its characters) or not.
Str(chars) == [type |-> "string", chars |-> chars]

FilePrefix == <<"f", "i", "l", "e", ":">>

FileP == Str(<<"f", "i", "l", "e", ":", "p">>)

FileQ == Str(<<"f", "i", "l", "e", ":", "q">>)

FileR == Str(<<"f", "i", "l", "e", ":", "r">>)

Semver == Str(<<"^", "1">>)

GitUrl == Str(<<"g", "i", "t", "+", "f", "i", "l", "e", ":", "p">>)

NonString == [type |-> "number", chars |-> <<>>]

FileSpecifiers == {FileP, FileQ, FileR}

NonFileSpecifiers == {Semver, GitUrl, NonString}

\* ------------------------------------------------------------ source trees
\* As in the tests' harness: the listing of every source directory and the
\* set of source paths that are directories.  A path is [root, sub]: the
\* resolved source root and the segments below it.
Dir(root, sub) == [root |-> root, sub |-> sub]

SourceListing ==
    (Dir(<<"p">>, <<>>) :> <<"index.js", "lib", "package.json">>)
    @@ (Dir(<<"p">>, <<"lib">>) :> <<"helper.js">>)
    @@ (Dir(<<"q">>, <<>>) :> <<"package.json", "node_modules">>)
    @@ (Dir(<<"q">>, <<"node_modules">>) :> <<"dep.js">>)
    @@ (Dir(<<"r">>, <<>>) :> <<"index.js">>)

SourceDirectories == DOMAIN SourceListing

\* ------------------------------------------------------------- utils/log.js
\* log(message, level, silently): the line is written unless silently.
Written(call) == ~call.silently

\* ------------------------------------------------- lib/index.js, pure parts
\* String.prototype.startsWith
startsWith(chars, prefix) ==
    /\ Len(chars) >= Len(prefix)
    /\ SubSeq(chars, 1, Len(prefix)) = prefix

\* String.prototype.includes
includes(chars, part) ==
    \E k \in 0..(Len(chars) - Len(part)) : SubSeq(chars, k + 1, k + Len(part)) = part

\* The filter with includes in place of startsWith.
IsFileDepAnywhere(version) ==
    /\ version.type = "string"
    /\ includes(version.chars, FilePrefix)

\* The filter of the merged entries: typeof version === 'string' &&
\* version.startsWith('file:').
IsFileDep(version) ==
    /\ version.type = "string"
    /\ startsWith(version.chars, FilePrefix)

\* version.replace(/^file:/, ''): the anchored prefix is dropped when present.
relativePath(version) ==
    IF startsWith(version.chars, FilePrefix)
    THEN SubSeq(version.chars, Len(FilePrefix) + 1, Len(version.chars))
    ELSE version.chars

\* path.resolve(projectRoot, relativePath): the source root, named by the
\* path below the project root.
ResolveSrc(version) == relativePath(version)

Entry(name, version) == [name |-> name, version |-> version]

HasKey(obj, name) == \E k \in 1..Len(obj) : obj[k].name = name

\* One property of an object spread: an existing key keeps its position and
\* takes the new value, a new key is appended.
Put(obj, e) ==
    IF HasKey(obj, e.name)
    THEN [k \in 1..Len(obj) |-> IF obj[k].name = e.name THEN e ELSE obj[k]]
    ELSE Append(obj, e)

RECURSIVE Spread(_, _)
Spread(obj, group) ==
    IF group = <<>> THEN obj
    ELSE Spread(Put(obj, Head(group)), Tail(group))

\* The spreads in the opposite order: the first group to declare a name wins.
MergeDepsReversed(pkg) ==
    Spread(Spread(Spread(Spread(<<>>, pkg["optionalDependencies"]),
                         pkg["peerDependencies"]),
                  pkg["devDependencies"]),
           pkg["dependencies"])

\* allDeps = { ...dependencies, ...devDependencies, ...peerDependencies,
\*             ...optionalDependencies }, as Object.entries lists it.
MergeDeps(pkg) ==
    Spread(Spread(Spread(Spread(<<>>, pkg["dependencies"]),
                         pkg["devDependencies"]),
                  pkg["peerDependencies"]),
           pkg["optionalDependencies"])

FileEntries(pkg) == SelectSeq(MergeDeps(pkg), LAMBDA e : IsFileDep(e.version))

\* Destructuring with a default: { key = default } = options.
Get(options, key, default) ==
    IF key \in DOMAIN options THEN options[key] ELSE default

\* The flag pushed under the opposite condition: if (dev).
InstallArgsInverted(isDev) ==
    IF isDev
    THEN <<"install", "--no-audit", "--no-fund", "--production">>
    ELSE <<"install", "--no-audit", "--no-fund">>

\* const args = ['install', '--no-audit', '--no-fund'];
\* if (!dev) args.push('--production');
InstallArgs(isDev) ==
    IF ~isDev
    THEN <<"install", "--no-audit", "--no-fund", "--production">>
    ELSE <<"install", "--no-audit", "--no-fund">>

\* stdio: silent ? 'ignore' : 'inherit'
Stdio(silent) == IF silent THEN "ignore" ELSE "inherit"

\* --------------------------------------------------------------- manifests
EmptyPkg == [g \in GroupNames |-> <<>>]

Decls(groups, versions) ==
    {[group |-> g, name |-> n, version |-> v] : g \in groups, n \in Names, v \in versions}

\* A declaration written into its group; a name is a key of a group once.
Declare(pkg, d) ==
    IF HasKey(pkg[d.group], d.name) THEN pkg
    ELSE [pkg EXCEPT ![d.group] = Append(@, Entry(d.name, d.version))]

\* The manifests of at most n declarations in the given groups.
RECURSIVE Pkgs(_, _, _)
Pkgs(groups, versions, n) ==
    IF n = 0 THEN {EmptyPkg}
    ELSE LET prev == Pkgs(groups, versions, n - 1)
         IN  prev \cup {Declare(pkg, d) : pkg \in prev, d \in Decls(groups, versions)}

\* -------------------------------------------------------------- filesystem
\* A store entry node_modules/<name>: absent, a symbolic link whose target
\* is gone ("dangling"), a symbolic link to a directory, or a real directory
\* with the directories and files below it.
Absent == [kind |-> "absent", dirs |-> {}, files |-> {}]

Dangling == [kind |-> "dangling", dirs |-> {}, files |-> {}]

Symlink == [kind |-> "symlink", dirs |-> {}, files |-> {}]

RealDir == [kind |-> "dir", dirs |-> {<<>>}, files |-> {<<"old.js">>}]

StoreEntries == {Absent, Dangling, Symlink, RealDir}

\* fs.existsSync follows links: a dangling link does not exist.
existsSync(st, name, sub) ==
    IF sub = <<>> THEN st[name].kind \in {"symlink", "dir"}
    ELSE st[name].kind = "dir" /\ sub \in (st[name].dirs \cup st[name].files)

\* fs.lstatSync(dest).isSymbolicLink() does not follow links.
isSymbolicLink(st, name) == st[name].kind \in {"symlink", "dangling"}

\* The removal left out: the entry stays as it is.
rmSyncLeftOut(st, name) == st

\* fs.rmSync(dest, { recursive: true, force: true }): a link is unlinked,
\* a directory is removed with all below it.
rmSync(st, name) == [st EXCEPT ![name] = Absent]

\* The directory made for the first call only: nested directories are not
\* created.
mkdirSyncTopOnly(st, name, sub) ==
    IF sub = <<>> THEN [st EXCEPT ![name] = [kind |-> "dir", dirs |-> {sub}, files |-> @.files]]
    ELSE st

\* The removal descending through the link: the tree it points at goes too.
rmSyncFollows(src, st, name, target) ==
    IF st[name].kind = "symlink"
    THEN [d \in {x \in DOMAIN src : x.root # target} |-> src[d]]
    ELSE src

\* What fs.rmSync(dest, { recursive: true, force: true }) does outside the
\* store when dest is a link to the tree target: the link is unlinked and
\* not followed, the tree it points at is left as it is.
rmSyncTarget(src, st, name, target) == src

\* fs.mkdirSync(dest, { recursive: true })
mkdirSync(st, name, sub) ==
    [st EXCEPT ![name] = [kind |-> "dir", dirs |-> @.dirs \cup {sub}, files |-> @.files]]

\* fs.copyFileSync(srcPath, destPath)
copyFileSync(st, name, sub) ==
    [st EXCEPT ![name].files = @ \cup {sub}]

\* The loop body without its lstatSync check.
GateWithoutLstat(st, name) ==
    IF ~existsSync(st, name, <<>>) THEN "WARN" ELSE "REPLACE"

\* What the loop body decides for one file-path dependency before it
\* touches the store: the two early returns, or the replacement.
Gate(st, name) ==
    IF ~existsSync(st, name, <<>>) THEN "WARN"
    ELSE IF ~isSymbolicLink(st, name) THEN "SKIP"
    ELSE "REPLACE"

\* -------------------------------------------------------------- invocations
Flags == {"--silent", "--no-install", "--dev", "--help", "-h"}

HelpFlags == {"--help", "-h"}

NoOptions == [k \in {} |-> TRUE]

Cli(args) == [entry |-> "cli", args |-> args, options |-> NoOptions]

CliInvocations == {Cli(args) : args \in SUBSET Flags}

ApiKeys == {"silent", "noInstall", "dev"}

\* Options objects as the tests and the README write them: the keys given
\* are true, the others are left to their defaults.
OptionsOver(keys) == {[k \in K |-> TRUE] : K \in SUBSET keys}

ApiOptions == OptionsOver(ApiKeys)

Api(options) == [entry |-> "api", args |-> {}, options |-> options]

ApiInvocations == {Api(options) : options \in ApiOptions}

\* ------------------------------------------------------------------- state
VARIABLES
    invocation,    \* how the program is run: the CLI's argv or the library call's options
    manifestFile,  \* package.json at the project root
    source,        \* the listing of every directory of the source trees on disk
    store,         \* node_modules/<name>, for every name
    store0,        \* the store when the current run started
    run,           \* number of the current run
    prev,          \* how the previous run ended
    pc,            \* where the current run is
    opts,          \* the object unlinkLocalDependencies received
    work,          \* the filtered entries forEach iterates
    i,             \* index of the entry being processed
    stack,         \* frames of copyRecursiveSync
    examined,      \* names whose store entry this run checked
    rmCalls,       \* names this run passed to fs.rmSync
    mkdirCalls,    \* paths this run passed to fs.mkdirSync
    copyCalls,     \* files this run passed to fs.copyFileSync
    spawnCalls,    \* commands this run passed to childProcess.spawnSync
    logCalls,      \* calls of log this run made
    exitCode,      \* process.exit status, -1 while none
    thrown         \* the error that left unlinkLocalDependencies, if any

vars == <<invocation, manifestFile, source, store, store0, run, prev, pc, opts, work, i, stack,
          examined, rmCalls, mkdirCalls, copyCalls, spawnCalls, logCalls, exitCode, thrown>>

fsVars == <<manifestFile, source, store>>

callVars == <<rmCalls, mkdirCalls, copyCalls, spawnCalls>>

NoError == [cause |-> "none", name |-> ""]

Error(cause, name) == [cause |-> cause, name |-> name]

\* The parameters of unlinkLocalDependencies after destructuring:
\* { silent = false, noInstall = false, dev = false } = {}.
silent == Get(opts, "silent", FALSE)

noInstall == Get(opts, "noInstall", FALSE)

dev == Get(opts, "dev", FALSE)

ManifestFiles(pkgs) ==
    {[state |-> "missing", pkg |-> EmptyPkg], [state |-> "malformed", pkg |-> EmptyPkg]}
    \cup {[state |-> "ok", pkg |-> pkg] : pkg \in pkgs}

InitWith(manifests, stores, invocations) ==
    /\ invocation \in invocations
    /\ manifestFile \in manifests
    /\ source = SourceListing
    /\ store \in stores
    /\ store0 = store
    /\ run = 1
    /\ prev = "none"
    /\ pc = "start"
    /\ opts = NoOptions
    /\ work = <<>>
    /\ i = 1
    /\ stack = <<>>
    /\ examined = <<>>
    /\ rmCalls = <<>>
    /\ mkdirCalls = <<>>
    /\ copyCalls = <<>>
    /\ spawnCalls = <<>>
    /\ logCalls = <<>>
    /\ exitCode = -1
    /\ thrown = NoError

\* The library under every options object, every store and every kind of
\* specifier, on manifests that declare in dependencies.
Init ==
    InitWith(ManifestFiles(Pkgs({"dependencies"},
                                FileSpecifiers \cup NonFileSpecifiers, MaxDecls)),
             [Names -> StoreEntries],
             ApiInvocations \cup {Cli({}), Cli({"--help"})})

\* The merge: manifests that declare in all four groups, every store entry
\* a symbolic link.
InitMerge ==
    InitWith(ManifestFiles(Pkgs(GroupNames, {FileQ, FileR, GitUrl}, MaxDecls)),
             [Names -> {Symlink}],
             {Api(NoOptions), Cli({}), Cli({"--help"})})

\* The command line: every set of flags and every options object.
InitCli ==
    InitWith(ManifestFiles(Pkgs({"dependencies"}, {FileP, FileR, Semver}, MaxDecls)),
             [Names -> {Absent, Symlink, RealDir}],
             CliInvocations \cup ApiInvocations)

\* ---------------------------------------------------------------- bin/cli.js
Logs(calls) == logCalls' = logCalls \o calls

Call(tag, name, level, silently) ==
    [tag |-> tag, name |-> name, level |-> level, silently |-> silently]

\* --help: the usage text is logged unsuppressed and the process exits 0.
CliHelp ==
    /\ pc = "start"
    /\ invocation.entry = "cli"
    /\ invocation.args \cap HelpFlags # {}
    /\ Logs(<<Call("usage", "", "log", FALSE)>>)
    /\ exitCode' = 0
    /\ pc' = "exited"
    /\ UNCHANGED <<invocation, fsVars, store0, run, prev, opts, work, i, stack,
                   examined, callVars, thrown>>

\* unlinkLocalDependencies({ silently, install, dev })
CliOptions(args) ==
    [silently |-> "--silent" \in args,
     install |-> "--no-install" \in args,
     dev |-> "--dev" \in args]

CliRun ==
    /\ pc = "start"
    /\ invocation.entry = "cli"
    /\ invocation.args \cap HelpFlags = {}
    /\ opts' = CliOptions(invocation.args)
    /\ pc' = "read"
    /\ UNCHANGED <<invocation, fsVars, store0, run, prev, work, i, stack,
                   examined, callVars, logCalls, exitCode, thrown>>

\* The library called directly with an options object.
ApiCall ==
    /\ pc = "start"
    /\ invocation.entry = "api"
    /\ opts' = invocation.options
    /\ pc' = "read"
    /\ UNCHANGED <<invocation, fsVars, store0, run, prev, work, i, stack,
                   examined, callVars, logCalls, exitCode, thrown>>

\* -------------------------------------------------------------- lib/index.js
\* A manifest that cannot be read taken as one that declares nothing.
ReadManifestOrEmpty ==
    /\ pc = "read"
    /\ work' = FileEntries(IF manifestFile.state = "ok" THEN manifestFile.pkg ELSE EmptyPkg)
    /\ pc' = "loop"
    /\ i' = 1
    /\ UNCHANGED <<invocation, fsVars, store0, run, prev, opts, stack,
                   examined, callVars, logCalls, exitCode, thrown>>

\* JSON.parse(fs.readFileSync(pkgJsonPath)), the merge and the filter.
ReadManifest ==
    /\ pc = "read"
    /\ IF manifestFile.state = "ok"
       THEN /\ work' = FileEntries(manifestFile.pkg)
            /\ pc' = "loop"
            /\ thrown' = thrown
       ELSE /\ work' = work
            /\ pc' = "threw"
            /\ thrown' = Error("manifest", "")
    /\ i' = 1
    /\ UNCHANGED <<invocation, fsVars, store0, run, prev, opts, stack,
                   examined, callVars, logCalls, exitCode>>

GateLevel(g) == IF g = "WARN" THEN "warn" ELSE "log"

\* The head of the loop body: existsSync, lstatSync and the log line.
Examine ==
    /\ pc = "loop"
    /\ i <= Len(work)
    /\ LET name == work[i].name
           g == Gate(store, name)
       IN  /\ examined' = Append(examined, name)
           /\ Logs(<<Call(g, name, GateLevel(g), silent)>>)
           /\ IF g = "REPLACE"
              THEN pc' = "rm" /\ i' = i
              ELSE pc' = "loop" /\ i' = i + 1
    /\ UNCHANGED <<invocation, fsVars, store0, run, prev, opts, work, stack,
                   callVars, exitCode, thrown>>

Frame(root, sub, idx) == [root |-> root, sub |-> sub, idx |-> idx]

\* fs.rmSync(dest, { recursive: true, force: true }), or the error it throws.
Remove ==
    /\ pc = "rm"
    /\ LET name == work[i].name
       IN  /\ rmCalls' = Append(rmCalls, name)
           /\ \/ /\ store' = rmSync(store, name)
                 /\ source' = rmSyncTarget(source, store, name, ResolveSrc(work[i].version))
                 /\ stack' = <<Frame(ResolveSrc(work[i].version), <<>>, 0)>>
                 /\ pc' = "copy"
                 /\ thrown' = thrown
              \/ /\ store' = store
                 /\ source' = source
                 /\ stack' = stack
                 /\ pc' = "threw"
                 /\ thrown' = Error("rm", name)
    /\ UNCHANGED <<invocation, manifestFile, store0, run, prev, opts, work, i,
                   examined, mkdirCalls, copyCalls, spawnCalls, logCalls, exitCode>>

\* Frames whose forEach is over return to their callers.
RECURSIVE Unwind(_)
Unwind(s) ==
    IF s = <<>> THEN s
    ELSE LET f == s[Len(s)]
         IN  IF f.idx >= 1 /\ f.idx > Len(source[Dir(f.root, f.sub)])
             THEN Unwind(SubSeq(s, 1, Len(s) - 1))
             ELSE s

\* After copyRecursiveSync(src, dest) returned: if (!noInstall) install.
AfterCopy(s) ==
    IF s # <<>> THEN pc' = "copy" /\ i' = i
    ELSE IF noInstall THEN pc' = "loop" /\ i' = i + 1
    ELSE pc' = "install" /\ i' = i

\* The error caught inside the loop body: the forEach goes on.
CopyCaught(name) ==
    /\ pc' = "loop"
    /\ i' = i + 1
    /\ thrown' = Error("copy", name)

\* An error of the tree copy: nothing between copyRecursiveSync and the
\* caller of unlinkLocalDependencies catches it.
CopyThrows(name) ==
    /\ pc' = "threw"
    /\ i' = i
    /\ thrown' = Error("copy", name)

Top == stack[Len(stack)]

SetTop(f) == [stack EXCEPT ![Len(stack)] = f]

\* copyRecursiveSync entered: existsSync(dest), mkdirSync(dest), readdirSync(src).
CopyEnter ==
    /\ pc = "copy"
    /\ Top.idx = 0
    /\ LET name == work[i].name
           sub == Top.sub
           there == existsSync(store, name, sub)
           made == IF there THEN store ELSE mkdirSync(store, name, sub)
           readable == Dir(Top.root, sub) \in DOMAIN source
       IN  /\ mkdirCalls' = IF there THEN mkdirCalls
                            ELSE Append(mkdirCalls, [name |-> name, sub |-> sub])
           /\ \/ /\ ~there
                 /\ store' = store
                 /\ stack' = stack
                 /\ CopyThrows(name)
              \/ /\ store' = made
                 /\ stack' = stack
                 /\ CopyThrows(name)
              \/ /\ readable
                 /\ store' = made
                 /\ stack' = Unwind(SetTop(Frame(Top.root, sub, 1)))
                 /\ AfterCopy(stack')
                 /\ thrown' = thrown
    /\ UNCHANGED <<invocation, manifestFile, source, store0, run, prev, opts, work,
                   examined, rmCalls, copyCalls, spawnCalls, logCalls, exitCode>>

\* path.join(dest, file) with the dest of the first call in place of the
\* dest of the current call.
JoinTopDest(sub, file) == <<file>>

\* const destPath = path.join(dest, file), below the store entry.
JoinDest(sub, file) == Append(sub, file)

\* One turn of the forEach: statSync, then the recursion or copyFileSync.
CopyEntry ==
    /\ pc = "copy"
    /\ Top.idx >= 1
    /\ LET name == work[i].name
           file == source[Dir(Top.root, Top.sub)][Top.idx]
           path == Append(Top.sub, file)
           destPath == JoinDest(Top.sub, file)
           next == SetTop(Frame(Top.root, Top.sub, Top.idx + 1))
       IN  \/ /\ store' = store
              /\ stack' = stack
              /\ copyCalls' = copyCalls
              /\ CopyThrows(name)
           \/ /\ Dir(Top.root, path) \in DOMAIN source
              /\ store' = store
              /\ stack' = Append(next, Frame(Top.root, path, 0))
              /\ copyCalls' = copyCalls
              /\ pc' = "copy" /\ i' = i
              /\ thrown' = thrown
           \/ /\ Dir(Top.root, path) \notin DOMAIN source
              /\ store' = copyFileSync(store, name, destPath)
              /\ stack' = Unwind(next)
              /\ copyCalls' = Append(copyCalls, [name |-> name, root |-> Top.root,
                                                 src |-> path, dest |-> destPath])
              /\ AfterCopy(stack')
              /\ thrown' = thrown
    /\ UNCHANGED <<invocation, manifestFile, source, store0, run, prev, opts, work,
                   examined, rmCalls, mkdirCalls, spawnCalls, logCalls, exitCode>>

SpawnResults == {"0", "1", "null"}

\* childProcess.spawnSync('npm', args, { cwd: dest, stdio }) and what it returned.
Spawn(dest, isDev, isSilent, status) ==
    [cmd |-> "npm", args |-> InstallArgs(isDev), cwd |-> dest,
     stdio |-> Stdio(isSilent), status |-> status]

\* installDependencies without its check of node_modules.
InstallPathUnchecked(st, dest) ==
    IF ~existsSync(st, dest, <<"package.json">>) THEN "SKIP_NOPKG" ELSE "INSTALL"

\* Which of its three ways installDependencies takes.
InstallPath(st, dest) ==
    IF ~existsSync(st, dest, <<"package.json">>) THEN "SKIP_NOPKG"
    ELSE IF existsSync(st, dest, <<"node_modules">>) THEN "SKIP_PRESENT"
    ELSE "INSTALL"

\* The log calls of installDependencies once the command returned.
InstallLogs(dest, isSilent, status) ==
    <<Call("INSTALL", dest, "log", isSilent)>>
    \o (IF status # "0" THEN <<Call("ERROR", dest, "error", isSilent)>> ELSE <<>>)

\* What the install command leaves in its working directory.
NpmEffect(st, dest, status) ==
    IF status = "0" THEN mkdirSync(st, dest, <<"node_modules">>) ELSE st

\* installDependencies returns to the loop, which goes on.
InstallReturns ==
    /\ pc' = "loop"
    /\ i' = i + 1
    /\ thrown' = thrown

\* A status check that raises in place of the log call.
StatusRaises(dest, status) ==
    IF status # "0"
    THEN pc' = "threw" /\ i' = i /\ thrown' = Error("install", dest)
    ELSE InstallReturns

\* if (result.status !== 0) log(...): the status is logged, nothing is raised.
StatusChecked(dest, status) == InstallReturns

\* installDependencies(dest, { dev, silent })
InstallDependencies(dest, isDev, isSilent) ==
    LET way == InstallPath(store, dest)
    IN  IF way # "INSTALL"
        THEN /\ Logs(<<Call(way, dest, "log", isSilent)>>)
             /\ spawnCalls' = spawnCalls
             /\ store' = store
             /\ InstallReturns
        ELSE \E status \in SpawnResults :
                /\ Logs(InstallLogs(dest, isSilent, status))
                /\ spawnCalls' = Append(spawnCalls, Spawn(dest, isDev, isSilent, status))
                /\ store' = NpmEffect(store, dest, status)
                /\ StatusChecked(dest, status)

Install ==
    /\ pc = "install"
    /\ InstallDependencies(work[i].name, dev, silent)
    /\ UNCHANGED <<invocation, manifestFile, source, store0, run, prev, opts, work,
                   stack, examined, rmCalls, mkdirCalls, copyCalls, exitCode>>

\* forEach is over: unlinkLocalDependencies returns.
Return ==
    /\ pc = "loop"
    /\ i > Len(work)
    /\ pc' = "returned"
    /\ UNCHANGED <<invocation, fsVars, store0, run, prev, opts, work, i, stack,
                   examined, callVars, logCalls, exitCode, thrown>>

\* ---------------------------------------------------------------- bin/cli.js
CliSuccess ==
    /\ pc = "returned"
    /\ invocation.entry = "cli"
    /\ Logs(<<Call("success", "", "log", opts["silently"])>>)
    /\ exitCode' = 0
    /\ pc' = "exited"
    /\ UNCHANGED <<invocation, fsVars, store0, run, prev, opts, work, i, stack,
                   examined, callVars, thrown>>

CliCatch ==
    /\ pc = "threw"
    /\ invocation.entry = "cli"
    /\ Logs(<<Call("error", "", "error", opts["silently"])>>)
    /\ exitCode' = 1
    /\ pc' = "exited"
    /\ UNCHANGED <<invocation, fsVars, store0, run, prev, opts, work, i, stack,
                   examined, callVars, thrown>>

\* ------------------------------------------------------------- the next run
Ended ==
    \/ pc = "exited"
    \/ invocation.entry = "api" /\ pc \in {"returned", "threw"}

Outcome ==
    IF thrown.cause # "none" THEN "threw"
    ELSE IF invocation.args \cap HelpFlags # {} THEN "help"
    ELSE "returned"

\* The same command is run again on the same project root.
Rerun ==
    /\ Ended
    /\ run < MaxRuns
    /\ run' = run + 1
    /\ prev' = Outcome
    /\ store0' = store
    /\ pc' = "start"
    /\ opts' = NoOptions
    /\ work' = <<>>
    /\ i' = 1
    /\ stack' = <<>>
    /\ examined' = <<>>
    /\ rmCalls' = <<>>
    /\ mkdirCalls' = <<>>
    /\ copyCalls' = <<>>
    /\ spawnCalls' = <<>>
    /\ logCalls' = <<>>
    /\ exitCode' = -1
    /\ thrown' = NoError
    /\ UNCHANGED <<invocation, fsVars>>

Next ==
    \/ CliHelp
    \/ CliRun
    \/ ApiCall
    \/ ReadManifest
    \/ Examine
    \/ Remove
    \/ CopyEnter
    \/ CopyEntry
    \/ Install
    \/ Return
    \/ CliSuccess
    \/ CliCatch
    \/ Rerun

Spec == Init /\ [][Next]_vars

SpecMerge == InitMerge /\ [][Next]_vars

SpecCli == InitCli /\ [][Next]_vars

\* ================================================================== claims
InSeq(x, seq) == \E k \in 1..Len(seq) : seq[k] = x

\* The run made a call that changes node_modules/<name>.
Touched(name) ==
    \/ InSeq(name, rmCalls)
    \/ \E k \in 1..Len(mkdirCalls) : mkdirCalls[k].name = name
    \/ \E k \in 1..Len(copyCalls) : copyCalls[k].name = name
    \/ \E k \in 1..Len(spawnCalls) : spawnCalls[k].cwd = name

\* C1: a run removes, creates, copies into or installs into a store entry
\* only if the entry existed and was a symbolic link when the run came to
\* it; an entry that was absent, a dangling link or a real directory is
\* the same after the run as before.
C1_SymlinkGate ==
    \A n \in Names :
        /\ Touched(n) => store0[n].kind = "symlink"
        /\ store0[n].kind # "symlink" => store[n] = store0[n]

\* A finished run in which one file-path dependency was skipped as a real
\* directory and another, a symbolic link, was replaced.
C1_Witness ==
    /\ pc = "returned"
    /\ \E n, m \in Names :
        /\ InSeq(n, examined) /\ store0[n].kind = "dir" /\ ~Touched(n)
        /\ InSeq(m, rmCalls) /\ store0[m].kind = "symlink" /\ store[m].kind = "dir"

\* The source tree below a root, read off the listings.
SrcDirs(root) == {d.sub : d \in {x \in SourceDirectories : x.root = root}}

SrcPaths(root) ==
    UNION {{Append(d.sub, SourceListing[d][k]) : k \in 1..Len(SourceListing[d])} :
            d \in {x \in SourceDirectories : x.root = root}}

SrcFiles(root) == SrcPaths(root) \ SrcDirs(root)

\* What the install command may add to a copy.
Installed == {<<"node_modules">>}

\* The file-path dependencies of the manifest whose store entry was a
\* symbolic link to a directory when the run started, with their sources.
LinkedDeps ==
    IF manifestFile.state # "ok" THEN {}
    ELSE {e \in {MergeDeps(manifestFile.pkg)[k] : k \in 1..Len(MergeDeps(manifestFile.pkg))} :
            e.version \in FileSpecifiers /\ store0[e.name].kind = "symlink"}

CompleteCopy(e) ==
    /\ store[e.name].kind = "dir"
    /\ store[e.name].files = SrcFiles(ResolveSrc(e.version))
    /\ store[e.name].dirs \ Installed = SrcDirs(ResolveSrc(e.version)) \ Installed

PartialCopy(e) ==
    /\ store[e.name].kind = "dir"
    /\ store[e.name].files \subseteq SrcFiles(ResolveSrc(e.version))
    /\ store[e.name].dirs \subseteq SrcDirs(ResolveSrc(e.version))

\* unlinkLocalDependencies ran and returned normally.
RanToCompletion ==
    /\ thrown.cause = "none"
    /\ \/ pc = "returned"
       \/ pc = "exited" /\ invocation.args \cap HelpFlags = {}

\* The dependency the run is replacing, or was replacing when it threw.
InReplacement(e) ==
    /\ i <= Len(work)
    /\ work[i].name = e.name
    /\ pc = "copy" \/ thrown = Error("copy", e.name)

\* C2 as stated: the store entry of a symlinked file-path dependency is, in
\* every state, the original symbolic link or a complete copy of the source.
C2_Atomic ==
    \A e \in LinkedDeps : store[e.name] = store0[e.name] \/ CompleteCopy(e)

\* C2 amended: the replacement is remove-then-copy.  The entry is the
\* original link or a complete copy, except for the dependency being
\* replaced (or whose replacement threw), whose entry is absent or a
\* partial copy; after a run that returned normally every such entry is a
\* complete copy.
C2_RemoveThenCopy ==
    \A e \in LinkedDeps :
        /\ \/ store[e.name] = store0[e.name]
           \/ CompleteCopy(e)
           \/ InReplacement(e) /\ (store[e.name] = Absent \/ PartialCopy(e))
        /\ RanToCompletion => CompleteCopy(e)

\* A run that returned normally after replacing a link by the nested tree p.
C2_Witness ==
    /\ RanToCompletion
    /\ \E e \in LinkedDeps :
        /\ e.version = FileP
        /\ InSeq(e.name, rmCalls)
        /\ CompleteCopy(e)
        /\ <<"lib", "helper.js">> \in store[e.name].files

\* The command line ran the library (no help flag) with this flag.
CliRanWith(flag) ==
    /\ invocation.entry = "cli"
    /\ flag \in invocation.args
    /\ invocation.args \cap HelpFlags = {}

\* C3: a CLI run with --no-install issues no install command.
C3_NoInstallFlag ==
    CliRanWith("--no-install") => spawnCalls = <<>>

\* C4: a CLI run with --silent writes no message and the install command's
\* output is ignored, not inherited.
C4_SilentFlag ==
    CliRanWith("--silent") =>
        /\ \A k \in 1..Len(logCalls) : ~Written(logCalls[k])
        /\ \A k \in 1..Len(spawnCalls) : spawnCalls[k].stdio = "ignore"

\* C5: a run that follows a run which returned normally makes no removal,
\* no directory creation, no file copy and no install command, and leaves
\* the store as it found it.
C5_SecondRunIdle ==
    run >= 2 /\ prev = "returned" =>
        /\ rmCalls = <<>>
        /\ mkdirCalls = <<>>
        /\ copyCalls = <<>>
        /\ spawnCalls = <<>>
        /\ store = store0

\* The second run returned after examining an entry the first run had
\* replaced by a copy.
C5_Witness ==
    /\ run = 2
    /\ prev = "returned"
    /\ pc = "returned"
    /\ \E n \in Names :
        /\ InSeq(n, examined)
        /\ store0[n].kind = "dir"
        /\ <<"package.json">> \in store0[n].files

\* The names of the first n entries the loop iterates.
WorkNames(n) == [k \in 1..n |-> work[k].name]

\* C6 as stated: when a tree copy failed, every file-path dependency of the
\* run has been processed by the time the run is over.
C6_CopyFailureIsolated ==
    thrown.cause = "copy" /\ Ended =>
        \A k \in 1..Len(work) : InSeq(work[k].name, examined)

\* C6 amended: a tree-copy failure aborts the whole run.  The error leaves
\* unlinkLocalDependencies (the CLI exits 1), the dependencies up to the
\* failing one are the only ones examined, and no later one is touched.
C6_CopyFailureAborts ==
    thrown.cause = "copy" =>
        /\ pc \in {"threw", "exited"}
        /\ pc = "exited" => exitCode = 1
        /\ thrown.name = work[i].name
        /\ examined = WorkNames(i)
        /\ \A k \in (i + 1)..Len(work) :
            /\ ~Touched(work[k].name)
            /\ store[work[k].name] = store0[work[k].name]

\* The copy of the first of two symlinked dependencies failed and the run
\* is over: the second is still a symbolic link.
C6_Witness ==
    /\ thrown.cause = "copy"
    /\ Ended
    /\ Len(work) = 2
    /\ i = 1
    /\ store[work[2].name] = Symlink

\* The place of a name among the entries the loop iterates.
Pos(name) == CHOOSE k \in 1..Len(work) : work[k].name = name

\* C7: an install command that returned a status other than 0 (1, or none)
\* is logged as an error and raises nothing: the loop has moved past that
\* dependency, every dependency up to the current one has been examined,
\* an error of the run comes from the removal or copy of a later
\* dependency, and a run that returned normally examined every file-path
\* dependency (the CLI exits 0).
C7_InstallFailureSoft ==
    \A k \in 1..Len(spawnCalls) :
        LET c == spawnCalls[k]
            j == Pos(c.cwd)
        IN  c.status # "0" =>
                /\ InSeq(Call("ERROR", c.cwd, "error", silent), logCalls)
                /\ i > j
                /\ \A m \in (j + 1)..(i - 1) : InSeq(work[m].name, examined)
                /\ thrown.cause # "none" =>
                    thrown.cause \in {"rm", "copy"} /\ Pos(thrown.name) > j
                /\ RanToCompletion =>
                    /\ examined = WorkNames(Len(work))
                    /\ pc = "exited" => exitCode = 0

\* The install of the first of two dependencies failed, the second was
\* replaced all the same and the run returned normally.
C7_Witness ==
    /\ RanToCompletion
    /\ Len(work) = 2
    /\ Len(spawnCalls) >= 1
    /\ spawnCalls[1].status # "0"
    /\ spawnCalls[1].cwd = work[1].name
    /\ InSeq(work[2].name, rmCalls)
    /\ store[work[2].name].kind = "dir"

\* The options object holds the key with the value true.
Given(key) == key \in DOMAIN opts /\ opts[key]

\* C8: every install command of a run is npm install --no-audit --no-fund,
\* with --production unless the options give dev: true, run in a store
\* entry this run replaced; with noInstall: true there is no command.
C8_InstallFlags ==
    /\ Given("noInstall") => spawnCalls = <<>>
    /\ \A k \in 1..Len(spawnCalls) :
        LET c == spawnCalls[k]
        IN  /\ c.cmd = "npm"
            /\ ~Given("dev") =>
                c.args = <<"install", "--no-audit", "--no-fund", "--production">>
            /\ Given("dev") => c.args = <<"install", "--no-audit", "--no-fund">>
            /\ InSeq(c.cwd, rmCalls)
            /\ store0[c.cwd].kind = "symlink"
            /\ store[c.cwd].kind = "dir"

\* The library called with { dev: true } installed without --production in
\* the entry it had replaced.
C8_Witness ==
    /\ invocation.entry = "api"
    /\ Given("dev")
    /\ pc = "returned"
    /\ Len(spawnCalls) >= 1
    /\ spawnCalls[1].args = <<"install", "--no-audit", "--no-fund">>
    /\ InSeq(spawnCalls[1].cwd, rmCalls)

\* The manifest read off group by group: the groups that declare a name,
\* and the specifier the last of them gives it.
DeclaredIn(k, n) == HasKey(manifestFile.pkg[GroupOrder[k]], n)

Declaring(n) == {k \in 1..Len(GroupOrder) : DeclaredIn(k, n)}

LastDeclaring(n) == CHOOSE k \in Declaring(n) : \A m \in Declaring(n) : m <= k

VersionIn(k, n) ==
    LET group == manifestFile.pkg[GroupOrder[k]]
    IN  group[CHOOSE x \in 1..Len(group) : group[x].name = n].version

LastVersion(n) == VersionIn(LastDeclaring(n), n)

\* The source root a file specifier names.
SourceRoot == (FileP :> <<"p">>) @@ (FileQ :> <<"q">>) @@ (FileR :> <<"r">>)

Logged(n) == \E k \in 1..Len(logCalls) : logCalls[k].name = n

\* C9: a dependency whose merged specifier is a semver range, a git URL or
\* not a string is never examined, logged about, removed, copied or
\* installed, and its store entry stays as it was, whatever it is.
C9_NonFileUntouched ==
    manifestFile.state = "ok" =>
        \A n \in Names :
            Declaring(n) # {} /\ LastVersion(n) \in NonFileSpecifiers =>
                /\ ~InSeq(n, examined)
                /\ ~Logged(n)
                /\ ~Touched(n)
                /\ store[n] = store0[n]

\* A run returned having replaced a file-path dependency while a git-URL
\* dependency whose store entry is a symbolic link was left alone.
C9_Witness ==
    /\ manifestFile.state = "ok"
    /\ pc = "returned"
    /\ \E n, m \in Names :
        /\ Declaring(n) # {}
        /\ LastVersion(n) = GitUrl
        /\ store[n] = Symlink
        /\ InSeq(m, rmCalls)

\* The run has read the manifest and merged its groups.
Merged ==
    /\ manifestFile.state = "ok"
    /\ pc \notin {"start", "read"}
    /\ invocation.args \cap HelpFlags = {}

\* C10: the entries the loop iterates are the names whose last declaring
\* group gives a file: specifier, each with that specifier, and every file
\* copied for a name comes from the source that specifier names.
C10_MergePrecedence ==
    Merged =>
        \A n \in Names :
            LET declared == Declaring(n) # {}
                version == LastVersion(n)
                isFile == declared /\ version \in FileSpecifiers
            IN  /\ (\E k \in 1..Len(work) : work[k].name = n) <=> isFile
                /\ \A k \in 1..Len(work) : work[k].name = n => work[k].version = version
                /\ InSeq(n, examined) => isFile
                /\ \A k \in 1..Len(copyCalls) :
                    copyCalls[k].name = n => copyCalls[k].root = SourceRoot[version]

\* A name declared file:r in dependencies and file:q in devDependencies was
\* copied from q.
C10_Witness ==
    /\ manifestFile.state = "ok"
    /\ pc = "returned"
    /\ \E n \in Names :
        /\ DeclaredIn(1, n) /\ VersionIn(1, n) = FileR
        /\ DeclaredIn(2, n) /\ VersionIn(2, n) = FileQ
        /\ \E k \in 1..Len(copyCalls) :
            copyCalls[k].name = n /\ copyCalls[k].root = <<"q">>

\* The k-th entry of the loop was a link this run removed, and its
\* copyRecursiveSync has returned.
CopyDone(k) ==
    /\ InSeq(work[k].name, rmCalls)
    /\ \/ k < i
       \/ k = i /\ pc = "install"

\* The install command ran in node_modules/<name> and returned 0.
SpawnedOk(name) ==
    \E k \in 1..Len(spawnCalls) : spawnCalls[k].cwd = name /\ spawnCalls[k].status = "0"

\* C11: once the copy of a replaced symbolic link has returned, the store
\* entry is a real directory whose directories and files are exactly those
\* of the source tree, every file copied from the source path to the same
\* path below the entry; only an install command that succeeded adds to it
\* (its node_modules).
C11_CopyFidelity ==
    \A k \in 1..Len(work) :
        CopyDone(k) =>
            LET n == work[k].name
                root == ResolveSrc(work[k].version)
                copies == {copyCalls[c] : c \in {x \in 1..Len(copyCalls) : copyCalls[x].name = n}}
            IN  /\ store0[n].kind = "symlink"
                /\ store[n].kind = "dir"
                /\ store[n].files = SrcFiles(root)
                /\ store[n].dirs = SrcDirs(root) \cup (IF SpawnedOk(n) THEN Installed ELSE {})
                /\ {c.dest : c \in copies} = SrcFiles(root)
                /\ \A c \in copies : c.root = root /\ c.src = c.dest
                /\ \A d \in SrcDirs(root) : InSeq([name |-> n, sub |-> d], mkdirCalls)

\* The nested tree p has been copied over a symbolic link and the install
\* step has not run yet.
C11_Witness ==
    /\ pc = "install"
    /\ work[i].version = FileP
    /\ store0[work[i].name] = Symlink
    /\ store[work[i].name] =
        [kind |-> "dir",
         dirs |-> {<<>>, <<"lib">>},
         files |-> {<<"index.js">>, <<"lib", "helper.js">>, <<"package.json">>}]

C13_ManifestFatal ==
    /\ manifestFile.state # "ok" =>
        /\ pc \in {"start", "read", "threw", "exited"}
        /\ work = <<>>
        /\ examined = <<>>
        /\ rmCalls = <<>>
        /\ mkdirCalls = <<>>
        /\ copyCalls = <<>>
        /\ spawnCalls = <<>>
        /\ store = store0
        /\ pc = "threw" => thrown = Error("manifest", "")
        /\ pc = "exited" /\ invocation.args \cap HelpFlags = {} =>
            thrown = Error("manifest", "") /\ exitCode = 1
    /\ pc = "exited" /\ RanToCompletion => exitCode = 0

\* The CLI exited 1 on an unparsable manifest with a symbolic link in the
\* store, which is still there.
C13_Witness ==
    /\ invocation.entry = "cli"
    /\ manifestFile.state = "malformed"
    /\ pc = "exited"
    /\ exitCode = 1
    /\ thrown.cause = "manifest"
    /\ \E n \in Names : store[n] = Symlink

\* installDependencies was called for the k-th entry of the loop and has
\* returned.
InstallDone(k) ==
    /\ InSeq(work[k].name, rmCalls)
    /\ k < i
    /\ ~noInstall

SpawnsIn(name) == {k \in 1..Len(spawnCalls) : spawnCalls[k].cwd = name}

LoggedAs(tag, name) ==
    \E k \in 1..Len(logCalls) : logCalls[k].tag = tag /\ logCalls[k].name = name

\* C14: installDependencies runs the install command in a copy exactly
\* when the copy (which is the source tree, C11) has a package.json and no
\* node_modules, once, logging [INSTALL]; without package.json, or with
\* node_modules copied from the source, it logs its [SKIP] line and runs
\* no command; and no command runs anywhere else.
C14_InstallerGuards ==
    /\ \A k \in 1..Len(work) :
        InstallDone(k) =>
            LET n == work[k].name
                root == ResolveSrc(work[k].version)
                hasPkg == <<"package.json">> \in SrcFiles(root)
                hasStore == <<"node_modules">> \in SrcDirs(root)
                way == IF ~hasPkg THEN "SKIP_NOPKG"
                       ELSE IF hasStore THEN "SKIP_PRESENT"
                       ELSE "INSTALL"
            IN  /\ Cardinality(SpawnsIn(n)) = (IF hasPkg /\ ~hasStore THEN 1 ELSE 0)
                /\ InSeq(Call(way, n, "log", silent), logCalls)
                /\ \A t \in {"SKIP_NOPKG", "SKIP_PRESENT", "INSTALL"} \ {way} : ~LoggedAs(t, n)
    /\ \A c \in 1..Len(spawnCalls) :
        \E k \in 1..Len(work) :
            /\ work[k].name = spawnCalls[c].cwd
            /\ InstallDone(k)

\* A run returned after it replaced two links: the copy of q, which brought
\* its own node_modules, got no install command, the copy of p got one.
C14_Witness ==
    /\ pc = "returned"
    /\ Len(work) = 2
    /\ work[1].version = FileQ
    /\ work[2].version = FileP
    /\ InSeq(work[1].name, rmCalls)
    /\ SpawnsIn(work[1].name) = {}
    /\ LoggedAs("SKIP_PRESENT", work[1].name)
    /\ SpawnsIn(work[2].name) # {}

====
